---- MODULE Spec2Model ----
(***************************************************************************)
(* A model of the HICP batch pipeline: the Fetcher                         *)
(* (ingestion_hicp_raw.py), the Transformer (process_hicp_silver.py), the  *)
(* Validator (check_hicp_quality.py) and the Loader (load_hicp_to_sql.py)  *)
(* over the blob store (blob.py) and the relational fact table.            *)
(*                                                                         *)
(* Spec          the four stages run one after the other on the stores.    *)
(* SpecParse     _parse_time_code applied to one time code.                *)
(* SpecTransform jsonstat_to_dataframe applied to one cube.                *)
(* SpecChecks    run_checks applied to one table.                          *)
(* SpecFetch     the Fetcher's main applied to one environment.            *)
(***************************************************************************)
EXTENDS Integers, Sequences, FiniteSets, TLC

VARIABLES
    now,          \* the wall clock, in seconds (datetime.now(timezone.utc))
    raw,          \* blobs under the raw prefix: ts -> wrapper
    processed,    \* blobs under the processed prefix: ts -> parquet table
    reports,      \* quality report blobs: blob name -> report document
    latest,       \* LATEST.json: None or Some(report blob name)
    fact,         \* rows of dbo.fact_hicp
    tableExists,  \* whether dbo.fact_hicp has been created
    loader,       \* the running Loader process: its position and locals
    lastLoad,     \* how the last Loader run ended, and on what
    lastReport,   \* None or Some(the report blob the last Validator run wrote)
    fnIn,         \* the argument of the function under study
    fnOut         \* its result

vars == <<now, raw, processed, reports, latest, fact, tableExists, loader,
          lastLoad, lastReport, fnIn, fnOut>>

(***************************************************************************)
(* Python values.                                                          *)
(***************************************************************************)
\* None, NaN and NaT are the empty tuple; a present value x is <<x>>.
None == <<>>
Some(x) == <<x>>
IsNone(o) == o = <<>>

\* A call either returns a value or raises.
Ok(v) == [st |-> "ok", val |-> v]
Raise(e) == [st |-> "raised", err |-> e]
Pending == [st |-> "pending"]

Range(s) == {s[i] : i \in DOMAIN s}

(***************************************************************************)
(* Strings that the code takes apart are sequences of characters.          *)
(***************************************************************************)
Digits == {"0", "1", "2", "3", "4", "5", "6", "7", "8", "9"}

DigitVal(c) ==
    CASE c = "0" -> 0 [] c = "1" -> 1 [] c = "2" -> 2 [] c = "3" -> 3
      [] c = "4" -> 4 [] c = "5" -> 5 [] c = "6" -> 6 [] c = "7" -> 7
      [] c = "8" -> 8 [] c = "9" -> 9

DigitChar(n) ==
    CASE n = 0 -> "0" [] n = 1 -> "1" [] n = 2 -> "2" [] n = 3 -> "3"
      [] n = 4 -> "4" [] n = 5 -> "5" [] n = 6 -> "6" [] n = 7 -> "7"
      [] n = 8 -> "8" [] n = 9 -> "9"

IsDigits(s) == \A i \in DOMAIN s : s[i] \in Digits

\* int("2024")
RECURSIVE ToInt(_)
ToInt(s) ==
    IF s = <<>> THEN 0
    ELSE 10 * ToInt(SubSeq(s, 1, Len(s) - 1)) + DigitVal(s[Len(s)])

(***************************************************************************)
(* _parse_time_code                                                        *)
(***************************************************************************)
Timestamp(y, m, d) == [year |-> y, month |-> m, day |-> d]

IsLeap(y) == (y % 4 = 0 /\ y % 100 # 0) \/ y % 400 = 0

DaysInMonth(y, m) ==
    IF m \in {4, 6, 9, 11} THEN 30
    ELSE IF m = 2 THEN (IF IsLeap(y) THEN 29 ELSE 28)
    ELSE 31

\* A calendar date exists (datetime's range check of year, month and day).
ValidDate(y, m, d) ==
    /\ y >= 1
    /\ m \in 1..12
    /\ d >= 1
    /\ d <= DaysInMonth(y, m)

\* pd.Timestamp(year, month, day): raises ValueError for a date that does not
\* exist.
NewTimestamp(y, m, d) ==
    IF ValidDate(y, m, d) THEN Ok(Timestamp(y, m, d)) ELSE Raise("ValueError")

\* re.match(r"^(\d{4})M(\d{2})$", s): "$" also matches before a final newline.
MatchMonthly(s) ==
    /\ \/ Len(s) = 7
       \/ Len(s) = 8 /\ s[8] = "\n"
    /\ IsDigits(SubSeq(s, 1, 4))
    /\ s[5] = "M"
    /\ IsDigits(SubSeq(s, 6, 7))

\* pd.to_datetime(s, errors="coerce") on the shapes of TimeCodes: ISO
\* "YYYY-MM" and "YYYY-MM-DD" give the date when it exists, anything else NaT.
ToDatetimeCoerce(s) ==
    IF /\ Len(s) \in {7, 10}
       /\ IsDigits(SubSeq(s, 1, 4))
       /\ s[5] = "-"
       /\ IsDigits(SubSeq(s, 6, 7))
       /\ Len(s) = 10 => (s[8] = "-" /\ IsDigits(SubSeq(s, 9, 10)))
    THEN LET y == ToInt(SubSeq(s, 1, 4))
             m == ToInt(SubSeq(s, 6, 7))
             d == IF Len(s) = 10 THEN ToInt(SubSeq(s, 9, 10)) ELSE 1
         IN  IF ValidDate(y, m, d) THEN Some(Timestamp(y, m, d)) ELSE None
    ELSE None

\* The branch taken for a code the monthly pattern matches.
MonthlyBranch(s) ==
    LET r == NewTimestamp(ToInt(SubSeq(s, 1, 4)), ToInt(SubSeq(s, 6, 7)), 1)
    IN  IF r.st = "ok" THEN Ok(Some(r.val)) ELSE r

\* t is None or Some(string). Returns Ok(None), Ok(Some(timestamp)) or raises.
parse_time_code(t) ==
    IF IsNone(t) THEN Ok(None)
    ELSE LET s == t[1] IN
         IF MatchMonthly(s) THEN MonthlyBranch(s)
         ELSE LET ts == ToDatetimeCoerce(s) IN
              IF IsNone(ts) THEN Ok(None)
              ELSE IF ts[1].day = 1 THEN Ok(ts)
              ELSE Ok(Some(Timestamp(ts[1].year, ts[1].month, 1)))

(***************************************************************************)
(* _ordered_category_codes                                                 *)
(*                                                                         *)
(* A dimension object is modelled by its category.index:                   *)
(*   [kind |-> "none"]                    no category or no index          *)
(*   [kind |-> "dict", items |-> seq]     <<code, position>> pairs in the  *)
(*                                        dict's insertion order           *)
(*   [kind |-> "list", codes |-> seq]     an ordered list of codes         *)
(*   [kind |-> "other"]                   any other JSON value             *)
(***************************************************************************)
\* Insert the pair kv after every pair whose position is not greater: the
\* stable order of sorted(..., key=lambda kv: kv[1]).
RECURSIVE InsertByPos(_, _)
InsertByPos(sorted, kv) ==
    IF sorted = <<>> THEN <<kv>>
    ELSE IF kv[2] < Head(sorted)[2] THEN <<kv>> \o sorted
    ELSE <<Head(sorted)>> \o InsertByPos(Tail(sorted), kv)

RECURSIVE SortedByPos(_)
SortedByPos(items) ==
    IF items = <<>> THEN <<>>
    ELSE InsertByPos(SortedByPos(SubSeq(items, 1, Len(items) - 1)),
                     items[Len(items)])

ordered_category_codes(idx) ==
    IF idx.kind = "none" THEN Ok(<<>>)
    ELSE IF idx.kind = "dict" THEN
        LET s == SortedByPos(idx.items)
        IN  Ok([i \in DOMAIN s |-> s[i][1]])
    ELSE IF idx.kind = "list" THEN Ok(idx.codes)
    ELSE Raise("TypeError")

(***************************************************************************)
(* jsonstat_to_dataframe                                                   *)
(*                                                                         *)
(* A payload is a function on the JSON keys it has. payload.value is       *)
(*   [kind |-> "list", vals |-> seq]   dense: None or Some(number) each    *)
(*   [kind |-> "dict", map |-> f]      sparse: f on some key strings       *)
(*   [kind |-> "str", len |-> n]       a JSON string of n characters       *)
(* A table is [cols |-> column names, rows |-> rows in order]; a row is a  *)
(* function on the column names.                                           *)
(***************************************************************************)
\* str(i), for the flat indices the model reaches.
StrOfInt(i) ==
    IF i < 10 THEN DigitChar(i)
    ELSE IF i < 20 THEN "1" \o DigitChar(i - 10)
    ELSE "2" \o DigitChar(i - 20)

\* A product whose first list varies fastest (column-major).
RECURSIVE ProductFirstFastest(_)
ProductFirstFastest(lists) ==
    IF lists = <<>> THEN << <<>> >>
    ELSE LET n == Len(lists)
             rest == ProductFirstFastest(SubSeq(lists, 1, n - 1))
             RECURSIVE Each(_)
             Each(k) ==
                 IF k > Len(lists[n]) THEN <<>>
                 ELSE [j \in DOMAIN rest |-> rest[j] \o <<lists[n][k]>>]
                      \o Each(k + 1)
         IN  Each(1)

\* itertools.product(*lists): the last list varies fastest.
RECURSIVE Product(_)
Product(lists) ==
    IF lists = <<>> THEN << <<>> >>
    ELSE LET rest == Product(Tail(lists))
             RECURSIVE Each(_)
             Each(k) ==
                 IF k > Len(Head(lists)) THEN <<>>
                 ELSE [j \in DOMAIN rest |-> <<Head(lists)[k]>> \o rest[j]]
                      \o Each(k + 1)
         IN  Each(1)

RECURSIVE SeqProd(_)
SeqProd(s) == IF s = <<>> THEN 1 ELSE Head(s) * SeqProd(Tail(s))

\* len(values)
ValuesLen(values) ==
    IF values.kind = "list" THEN Len(values.vals)
    ELSE IF values.kind = "dict" THEN Cardinality(DOMAIN values.map)
    ELSE values.len

\* The value the loop gives row i (0-based), or the error it raises there.
ValueAt(values, i) ==
    IF values.kind = "list" THEN
        IF i < Len(values.vals) THEN Ok(values.vals[i + 1])
        ELSE Raise("IndexError")
    ELSE IF values.kind = "dict" THEN
        IF StrOfInt(i) \in DOMAIN values.map THEN Ok(values.map[StrOfInt(i)])
        ELSE Ok(None)
    ELSE Raise("TypeError")

\* The row of combo number i (1-based in the model): each dimension's code
\* under the dimension's name, a later dimension of the same name winning,
\* and the value.
BuildRow(dim_order, combo, v) ==
    [c \in Range(dim_order) \cup {"value"} |->
        IF c = "value" THEN v
        ELSE combo[CHOOSE j \in DOMAIN dim_order :
                       /\ dim_order[j] = c
                       /\ \A k \in DOMAIN dim_order : dim_order[k] = c => k <= j]]

\* The sort key order of strings, for the codes the model uses.
CodeRank(c) ==
    CASE c = "A" -> 1 [] c = "AT" -> 2 [] c = "CP00" -> 3 [] c = "CP01" -> 4
      [] c = "DE" -> 5 [] c = "I15" -> 6 [] c = "I96" -> 7 [] c = "LU" -> 8
      [] c = "M" -> 9 [] c = "Q" -> 10

DateNum(ts) == (ts.year * 12 + ts.month) * 32 + ts.day

\* a sorts before b in column c; NaT sorts last.
CellLess(c, a, b) ==
    IF c = "time" THEN
        IF IsNone(a) THEN FALSE
        ELSE IF IsNone(b) THEN TRUE
        ELSE DateNum(a[1]) < DateNum(b[1])
    ELSE CodeRank(a) < CodeRank(b)

RECURSIVE RowLess(_, _, _)
RowLess(r1, r2, by) ==
    IF by = <<>> THEN FALSE
    ELSE IF CellLess(Head(by), r1[Head(by)], r2[Head(by)]) THEN TRUE
    ELSE IF CellLess(Head(by), r2[Head(by)], r1[Head(by)]) THEN FALSE
    ELSE RowLess(r1, r2, Tail(by))

RECURSIVE InsertRow(_, _, _)
InsertRow(sorted, r, by) ==
    IF sorted = <<>> THEN <<r>>
    ELSE IF RowLess(r, Head(sorted), by) THEN <<r>> \o sorted
    ELSE <<Head(sorted)>> \o InsertRow(Tail(sorted), r, by)

\* df.sort_values(by): a stable sort; with no sort column the rows stay.
RECURSIVE sort_values(_, _)
sort_values(rows, by) ==
    IF rows = <<>> \/ by = <<>> THEN rows
    ELSE InsertRow(sort_values(SubSeq(rows, 1, Len(rows) - 1), by),
                   rows[Len(rows)], by)

\* A canonical column list that forgets the geo column.
KeepPresentNoGeo(wanted, cols) ==
    SelectSeq(wanted, LAMBDA c : c \in cols /\ c # "geo")

\* [c for c in wanted if c in cols]
KeepPresent(wanted, cols) == SelectSeq(wanted, LAMBDA c : c \in cols)

\* The rows of the loop over enumerate(product(*codes_by_dim)).
BuildRows(dim_order, combos, values) ==
    [i \in DOMAIN combos |->
        BuildRow(dim_order, combos[i], ValueAt(values, i - 1).val)]

\* The part of the function after the sanity check.
FrameOf(dim_order, combos, values) ==
    LET rows == BuildRows(dim_order, combos, values)
        cols == IF rows = <<>> THEN {} ELSE Range(dim_order) \cup {"value"}
        parsed == [i \in DOMAIN rows |->
                      IF "time" \in cols THEN parse_time_code(Some(rows[i].time))
                      ELSE Ok(None)]
        ordered_cols == KeepPresent(<<"time", "geo", "coicop", "unit", "value">>, cols)
        by == KeepPresent(<<"geo", "coicop", "time">>, cols)
        kept == [i \in DOMAIN rows |->
                    [c \in Range(ordered_cols) |->
                        IF c = "time" THEN parsed[i].val ELSE rows[i][c]]]
    IN  IF \E i \in DOMAIN rows : parsed[i].st = "raised"
        THEN Raise("ValueError")
        ELSE Ok([cols |-> ordered_cols, rows |-> sort_values(kept, by)])

jsonstat_to_dataframe(payload) ==
    IF "dimension" \notin DOMAIN payload \/ "value" \notin DOMAIN payload
    THEN Raise("UnexpectedPayloadKeys")
    ELSE IF "id" \notin DOMAIN payload \/ "size" \notin DOMAIN payload
    THEN Raise("KeyError")
    ELSE
    LET dim == payload.dimension
        dim_order == payload.id
        sizes == payload.size
        values == payload.value
        codes == [j \in DOMAIN dim_order |->
                     IF dim_order[j] \in DOMAIN dim
                     THEN ordered_category_codes(dim[dim_order[j]])
                     ELSE Raise("KeyError")]
        combos == Product([j \in DOMAIN dim_order |-> codes[j].val])
    IN  IF \E j \in DOMAIN codes : codes[j].st = "raised"
        THEN Raise((codes[CHOOSE j \in DOMAIN codes :
                        /\ codes[j].st = "raised"
                        /\ \A k \in DOMAIN codes : codes[k].st = "raised" => j <= k]).err)
        ELSE IF ValuesLen(values) # SeqProd(sizes)
        THEN Raise("ValueLengthMismatch")
        ELSE IF \E i \in DOMAIN combos : ValueAt(values, i - 1).st = "raised"
        THEN Raise(ValueAt(values, (CHOOSE i \in DOMAIN combos :
                        ValueAt(values, i - 1).st = "raised") - 1).err)
        ELSE FrameOf(dim_order, combos, values)

(***************************************************************************)
(* The stores before any stage has run.                                    *)
(***************************************************************************)
NoLoad == [st |-> "none"]

StoresInit ==
    /\ now = 1
    /\ raw = <<>>
    /\ processed = <<>>
    /\ reports = <<>>
    /\ latest = None
    /\ fact = {}
    /\ tableExists = FALSE
    /\ loader = [pc |-> "idle"]
    /\ lastLoad = NoLoad
    /\ lastReport = None

StoresUnchanged ==
    UNCHANGED <<now, raw, processed, reports, latest, fact, tableExists,
                loader, lastLoad, lastReport>>

(***************************************************************************)
(* SpecParse: _parse_time_code on one time code.                           *)
(***************************************************************************)
MaxMonthField == 13

ParseYears == {2023, 2024}

TwoDigits(n) == <<DigitChar(n \div 10), DigitChar(n % 10)>>

FourDigits(n) ==
    <<DigitChar(n \div 1000), DigitChar((n \div 100) % 10)>> \o TwoDigits(n % 100)

\* "2024M01"
MonthlyCode(y, m) == FourDigits(y) \o <<"M">> \o TwoDigits(m)

\* "2024-01"
IsoMonthCode(y, m) == FourDigits(y) \o <<"-">> \o TwoDigits(m)

\* "2024-01-15"
IsoDayCode(y, m, d) == IsoMonthCode(y, m) \o <<"-">> \o TwoDigits(d)

TimeCodes ==
    {MonthlyCode(y, m) : y \in ParseYears, m \in 0..MaxMonthField}
    \cup {IsoMonthCode(y, m) : y \in ParseYears, m \in 1..12}
    \cup {IsoDayCode(y, m, d) : y \in ParseYears, m \in 1..12, d \in {1, 15}}
    \cup {MonthlyCode(2024, 1) \o <<"\n">>, <<"x">>, <<>>}

InitParse ==
    /\ StoresInit
    /\ fnIn \in {[fn |-> "parse_time_code", arg |-> t] :
                    t \in {None} \cup {Some(c) : c \in TimeCodes}}
    /\ fnOut = Pending

ApplyParse ==
    /\ fnIn.fn = "parse_time_code"
    /\ fnOut = Pending
    /\ fnOut' = parse_time_code(fnIn.arg)
    /\ UNCHANGED fnIn
    /\ StoresUnchanged

SpecParse == InitParse /\ [][ApplyParse]_vars

\* C5: time-code parsing is total: the parser returns a first-of-month date
\* or null and never raises; "YYYYMmm" with mm in 01..12 gives the first day
\* of that month, and with mm outside 01..12 gives null.
C5_ParseTotal ==
    (fnIn.fn = "parse_time_code" /\ fnOut # Pending) =>
        /\ fnOut.st = "ok"
        /\ IsNone(fnOut.val) \/ fnOut.val[1].day = 1
        /\ \A y \in ParseYears, m \in 0..MaxMonthField :
               fnIn.arg = Some(MonthlyCode(y, m)) =>
                   fnOut.val = IF m \in 1..12 THEN Some(Timestamp(y, m, 1))
                               ELSE None

(***************************************************************************)
(* SpecTransform: jsonstat_to_dataframe on one cube.                       *)
(***************************************************************************)
MaxDims == 2    \* dimensions of a cube
MaxCodes == 2   \* category codes of a dimension
MaxSize == 2    \* a declared dimension size
MaxLen == 4     \* entries of a value array

tJan == MonthlyCode(2024, 1)
tFeb == MonthlyCode(2024, 2)
tMar == MonthlyCode(2024, 3)
tIsoJan == IsoMonthCode(2024, 1)
tM13 == MonthlyCode(2024, 13)
tBad == <<"x">>

TransformDims == {"time", "geo", "freq"}

\* The code lists a dimension's index is built from.
CodeLists(d) ==
    LET all ==
        CASE d = "time" -> {<<>>, <<tJan>>, <<tJan, tFeb>>, <<tFeb, tJan>>,
                            <<tJan, tIsoJan>>, <<tJan, tM13>>, <<tBad, tJan>>,
                            <<tBad, tBad>>, <<tJan, tFeb, tMar>>}
          [] d = "geo" -> {<<>>, <<"LU">>, <<"LU", "DE">>, <<"DE", "LU">>,
                           <<"LU", "LU">>, <<"LU", "DE", "AT">>}
          [] d = "freq" -> {<<"M">>, <<"M", "A">>, <<"M", "A", "Q">>}
    IN  {l \in all : Len(l) <= MaxCodes}

Distinct(l) == \A i, j \in DOMAIN l : l[i] = l[j] => i = j

Reverse(s) == [i \in DOMAIN s |-> s[Len(s) + 1 - i]]

\* The indexes that declare the codes of l at positions 0, 1, ...: the list
\* itself, and the dict {code: position} with its items inserted in the
\* order of their positions and in the reverse order.
IndexesOf(l) ==
    LET items == [i \in DOMAIN l |-> <<l[i], i - 1>>]
    IN  {[kind |-> "list", codes |-> l]}
        \cup (IF Distinct(l)
              THEN {[kind |-> "dict", items |-> items],
                    [kind |-> "dict", items |-> Reverse(items)]}
              ELSE {})

\* All of these, a dict whose positions tie, no index, and an unsupported one.
IndexOptions(d) ==
    UNION {IndexesOf(l) : l \in CodeLists(d)}
    \cup {[kind |-> "dict", items |-> [i \in DOMAIN l |-> <<l[i], 0>>]] :
             l \in {m \in CodeLists(d) : Distinct(m) /\ Len(m) = 2}}
    \cup {[kind |-> "none"], [kind |-> "other"]}

ListOptions(d) == {[kind |-> "list", codes |-> l] : l \in CodeLists(d)}

\* Sequences of distinct elements of S, of length 0..n.
RECURSIVE Orders(_, _)
Orders(S, n) ==
    IF n = 0 THEN {<<>>}
    ELSE {<<>>} \cup UNION {{<<x>> \o o : o \in Orders(S \ {x}, n - 1)} : x \in S}

\* The sequences that take their k-th element from sets[k].
RECURSIVE SeqsOver(_)
SeqsOver(sets) ==
    IF sets = <<>> THEN {<<>>}
    ELSE {<<x>> \o r : x \in Head(sets), r \in SeqsOver(Tail(sets))}

\* The number of codes an index declares.
CodeCount(idx) ==
    IF idx.kind = "dict" THEN Len(idx.items)
    ELSE IF idx.kind = "list" THEN Len(idx.codes)
    ELSE 0

DenseOf(n) == [kind |-> "list", vals |-> [i \in 1..n |-> Some(100 + i)]]

DenseFirstNull(n) ==
    [kind |-> "list", vals |-> [i \in 1..n |-> IF i = 1 THEN None ELSE Some(100 + i)]]

SparseOn(keys) ==
    [kind |-> "dict",
     map |-> [k \in {StrOfInt(i) : i \in keys} |->
                 Some(101 + CHOOSE i \in keys : StrOfInt(i) = k)]]

MkCube(order, idxs, sizes, values) ==
    [id |-> order,
     size |-> sizes,
     dimension |-> [d \in Range(order) |->
                       idxs[CHOOSE j \in DOMAIN order : order[j] = d]],
     value |-> values]

SizesAsDeclared(idxs) == [j \in DOMAIN idxs |-> CodeCount(idxs[j])]

\* The call of jsonstat_to_dataframe on payload c is about to be made.
TransformOn(c) == fnIn = [fn |-> "jsonstat_to_dataframe", arg |-> c]

\* The index sequences that give each dimension of order o one of opts.
IndexSeqs(o, opts) == SeqsOver([j \in DOMAIN o |-> opts[o[j]]])

\* The call is on a cube whose sizes are as the indexes declare them and whose
\* value array is dense and of the length the sizes give, over every order
\* and index representation.
OnCubeAligned ==
    \E o \in Orders(TransformDims, MaxDims) :
        \E ix \in IndexSeqs(o, [d \in TransformDims |-> IndexOptions(d)]) :
            \E v \in {DenseOf(SeqProd(SizesAsDeclared(ix))),
                      DenseFirstNull(SeqProd(SizesAsDeclared(ix)))} :
                TransformOn(MkCube(o, ix, SizesAsDeclared(ix), v))

\* The call is on a cube of any declared sizes and any dense length.
OnCubeDense ==
    \E o \in Orders({"time", "geo"}, MaxDims) :
        \E ix \in IndexSeqs(o, [d \in {"time", "geo"} |-> ListOptions(d)]) :
            \E sz \in SeqsOver([j \in DOMAIN ix |-> 0..MaxSize]) :
                \E n \in 0..MaxLen : TransformOn(MkCube(o, ix, sz, DenseOf(n)))

\* The call is on a cube whose sizes are as the indexes declare them, with a
\* sparse value map on any keys.
OnCubeSparse ==
    \E o \in Orders({"time", "geo"}, MaxDims) :
        \E ix \in IndexSeqs(o, [d \in {"time", "geo"} |-> ListOptions(d)]) :
            \E K \in SUBSET (0..(MaxLen - 1)) :
                TransformOn(MkCube(o, ix, SizesAsDeclared(ix), SparseOn(K)))

\* Payloads that are not cubes: an API error document, a cube without "id",
\* a cube whose dimension object is missing, and a value that is a string.
CubesMalformed ==
    {[error |-> "x"],
     [dimension |-> <<>>, value |-> DenseOf(1)],
     [id |-> <<"geo">>, size |-> <<1>>, dimension |-> <<>>, value |-> DenseOf(1)]}
    \cup {MkCube(<<"geo">>, <<[kind |-> "list", codes |-> <<"LU">>]>>, <<n>>,
                 [kind |-> "str", len |-> n]) : n \in 0..1}

InitTransform ==
    /\ StoresInit
    /\ \/ OnCubeAligned
       \/ OnCubeDense
       \/ OnCubeSparse
       \/ \E c \in CubesMalformed : TransformOn(c)
    /\ fnOut = Pending

ApplyTransform ==
    /\ fnIn.fn = "jsonstat_to_dataframe"
    /\ fnOut = Pending
    /\ fnOut' = jsonstat_to_dataframe(fnIn.arg)
    /\ UNCHANGED fnIn
    /\ StoresUnchanged

SpecTransform == InitTransform /\ [][ApplyTransform]_vars

(***************************************************************************)
(* What the claims about the Transformer speak of, stated on the payload   *)
(* and not through the code's own enumeration.                             *)
(***************************************************************************)
TransformDone == fnIn.fn = "jsonstat_to_dataframe" /\ fnOut # Pending

KeyCols == {"time", "geo", "coicop", "unit"}

IsCube(p) ==
    /\ DOMAIN p = {"id", "size", "dimension", "value"}
    /\ Range(p.id) \subseteq DOMAIN p.dimension
    /\ \A j \in DOMAIN p.id : p.dimension[p.id[j]].kind \in {"list", "dict"}

\* The codes an index names, in the order it is written.
CodesNamed(idx) ==
    IF idx.kind = "list" THEN idx.codes
    ELSE [i \in DOMAIN idx.items |-> idx.items[i][1]]

\* The code an index declares at position pos (0-based).
CodeAtPos(idx, pos) ==
    IF idx.kind = "list" THEN idx.codes[pos + 1]
    ELSE (CHOOSE kv \in Range(idx.items) : kv[2] = pos)[1]

\* An index that declares distinct codes at the positions 0..n-1.
WellIndexed(idx) ==
    /\ Distinct(CodesNamed(idx))
    /\ idx.kind = "dict" =>
           {kv[2] : kv \in Range(idx.items)} = 0..(Len(idx.items) - 1)

\* What a code becomes in its column.
CellOf(d, code) ==
    IF d = "time" THEN parse_time_code(Some(code)).val ELSE code

\* The cube has a dimension, and every dimension names a code.
HasCodes(c) ==
    /\ c.id # <<>>
    /\ \A j \in DOMAIN c.id : CodeCount(c.dimension[c.id[j]]) >= 1

TimeCodesParse(c) ==
    \A j \in DOMAIN c.id :
        c.id[j] = "time" =>
            \A code \in Range(CodesNamed(c.dimension["time"])) :
                parse_time_code(Some(code)).st = "ok"

SizesMatchCodes(c) ==
    /\ Len(c.size) = Len(c.id)
    /\ \A j \in DOMAIN c.id : c.size[j] = CodeCount(c.dimension[c.id[j]])

\* The product of the sizes of the dimensions after the k-th.
Stride(sizes, k) == SeqProd(SubSeq(sizes, k + 1, Len(sizes)))

\* The flat index of a vector of positions, row-major.
RECURSIVE FlatFrom(_, _, _)
FlatFrom(sizes, pos, k) ==
    IF k > Len(pos) THEN 0
    ELSE pos[k] * Stride(sizes, k) + FlatFrom(sizes, pos, k + 1)

FlatIndex(sizes, pos) == FlatFrom(sizes, pos, 1)

Positions(sizes) == SeqsOver([k \in DOMAIN sizes |-> 0..(sizes[k] - 1)])

\* Row r carries the codes the cube declares at the positions pos, in every
\* column the table kept.
RowAt(r, c, pos) ==
    \A k \in DOMAIN c.id :
        c.id[k] \in DOMAIN r =>
            r[c.id[k]] = CellOf(c.id[k], CodeAtPos(c.dimension[c.id[k]], pos[k]))

KeyOf(r) == [col \in DOMAIN r \cap KeyCols |-> r[col]]

UniqueKeys(rows) ==
    \A i, j \in DOMAIN rows : KeyOf(rows[i]) = KeyOf(rows[j]) => i = j

\* C3: a dense cube (a cube in every other respect: its indexes are lists or
\* mappings naming at least one code, and its time codes parse) either gives
\* a table of as many rows as the product of the declared sizes or ends in
\* the value-length-mismatch error; and it ends in that error whenever a
\* declared size disagrees with the value array length or with the number of
\* codes of its dimension.
C3_DenseLengthOrMismatch ==
    (/\ TransformDone
     /\ IsCube(fnIn.arg)
     /\ fnIn.arg.value.kind = "list"
     /\ HasCodes(fnIn.arg)
     /\ TimeCodesParse(fnIn.arg)) =>
        LET c == fnIn.arg
            mismatch == fnOut.st = "raised" /\ fnOut.err = "ValueLengthMismatch"
        IN  /\ \/ fnOut.st = "ok" /\ Len(fnOut.val.rows) = SeqProd(c.size)
               \/ mismatch
            /\ (\/ SeqProd(c.size) # Len(c.value.vals)
                \/ ~SizesMatchCodes(c)) => mismatch

\* C4: a sparse cube (of at least one dimension and code) whose keys are
\* stringified flat indexes among 0..N-1 does not fail and gives one row per
\* position of the Cartesian product, with the mapped value where the index
\* is present and null where absent.
C4_SparseRows ==
    (/\ TransformDone
     /\ IsCube(fnIn.arg)
     /\ fnIn.arg.value.kind = "dict"
     /\ HasCodes(fnIn.arg)
     /\ \A j \in DOMAIN fnIn.arg.id : WellIndexed(fnIn.arg.dimension[fnIn.arg.id[j]])
     /\ SizesMatchCodes(fnIn.arg)
     /\ TimeCodesParse(fnIn.arg)
     /\ DOMAIN fnIn.arg.value.map
            \subseteq {StrOfInt(i) : i \in 0..(SeqProd(fnIn.arg.size) - 1)}) =>
        LET c == fnIn.arg IN
        /\ fnOut.st = "ok"
        /\ Len(fnOut.val.rows) = SeqProd(c.size)
        /\ \A pos \in Positions(c.size) :
               \E i \in DOMAIN fnOut.val.rows :
                   /\ RowAt(fnOut.val.rows[i], c, pos)
                   /\ fnOut.val.rows[i].value =
                          IF StrOfInt(FlatIndex(c.size, pos)) \in DOMAIN c.value.map
                          THEN c.value.map[StrOfInt(FlatIndex(c.size, pos))]
                          ELSE None

\* C9 as claimed: no two rows of a returned table share their
\* (time, geo, category, unit) tuple, for every payload transform accepts.
C9_UniqueKeys ==
    (TransformDone /\ fnOut.st = "ok") => UniqueKeys(fnOut.val.rows)

\* The payloads whose rows cannot collide: each dimension names distinct
\* codes, the time codes parse to distinct results, and a dimension that is
\* no key column has at most one code.
KeyablePayload(c) ==
    /\ IsCube(c)
    /\ \A j \in DOMAIN c.id :
           LET codes == CodesNamed(c.dimension[c.id[j]]) IN
           /\ Distinct(codes)
           /\ c.id[j] = "time" =>
                  Distinct([i \in DOMAIN codes |-> parse_time_code(Some(codes[i]))])
           /\ c.id[j] \notin KeyCols => Len(codes) <= 1

\* C9, amended: no two rows of a returned table share their
\* (time, geo, category, unit) tuple when the payload's dimensions each name
\* distinct codes, its time codes parse to distinct results and its
\* dimensions other than time, geo, category and unit have at most one code.
C9_UniqueKeysOfKeyable ==
    (TransformDone /\ fnOut.st = "ok" /\ KeyablePayload(fnIn.arg)) =>
        UniqueKeys(fnOut.val.rows)

C9_Witness ==
    /\ TransformDone
    /\ fnOut.st = "ok"
    /\ KeyablePayload(fnIn.arg)
    /\ "time" \in Range(fnIn.arg.id)
    /\ Len(fnOut.val.rows) >= 4

\* A well-formed dense cube: every index declares distinct codes at the
\* positions 0..n-1, the sizes are the code counts, the value list has the
\* length the sizes give, and the time codes parse.
WellFormedDense(c) ==
    /\ IsCube(c)
    /\ c.value.kind = "list"
    /\ \A j \in DOMAIN c.id : WellIndexed(c.dimension[c.id[j]])
    /\ SizesMatchCodes(c)
    /\ Len(c.value.vals) = SeqProd(c.size)
    /\ TimeCodesParse(c)

\* C10: row-major alignment: for a well-formed dense cube, the row of the
\* codes at positions (p1, ..., pn) carries the value at the flat index
\* sum of p_k times the product of the sizes of the dimensions after k.
C10_RowMajor ==
    (TransformDone /\ WellFormedDense(fnIn.arg)) =>
        LET c == fnIn.arg IN
        /\ fnOut.st = "ok"
        /\ Len(fnOut.val.rows) = SeqProd(c.size)
        /\ \A pos \in Positions(c.size) :
               \E i \in DOMAIN fnOut.val.rows :
                   /\ RowAt(fnOut.val.rows[i], c, pos)
                   /\ fnOut.val.rows[i].value = c.value.vals[FlatIndex(c.size, pos) + 1]

C10_Witness ==
    /\ TransformDone
    /\ WellFormedDense(fnIn.arg)
    /\ fnOut.st = "ok"
    /\ fnIn.arg.size = <<2, 2>>
    /\ \E j \in DOMAIN fnIn.arg.id :
           LET idx == fnIn.arg.dimension[fnIn.arg.id[j]] IN
           /\ idx.kind = "dict"
           /\ idx.items[1][2] = 1

(***************************************************************************)
(* _monthly_frequency_ok and run_checks                                    *)
(***************************************************************************)
\* The elements of a set of timestamps in ascending order:
\* pd.to_datetime(times.dropna()).sort_values().unique().
RECURSIVE SortedDates(_)
SortedDates(S) ==
    IF S = {} THEN <<>>
    ELSE LET lo == CHOOSE t \in S : \A u \in S : DateNum(t) <= DateNum(u)
         IN  <<lo>> \o SortedDates(S \ {lo})

NextMonthStart(t) ==
    IF t.month = 12 THEN Timestamp(t.year + 1, 1, 1)
    ELSE Timestamp(t.year, t.month + 1, 1)

RECURSIVE MonthStartsFrom(_, _)
MonthStartsFrom(cur, end) ==
    IF DateNum(cur) > DateNum(end) THEN <<>>
    ELSE <<cur>> \o MonthStartsFrom(NextMonthStart(cur), end)

\* pd.date_range(start, end, freq="MS"): the month starts in [start, end].
date_range_MS(start, end) ==
    MonthStartsFrom(IF start.day = 1 THEN start ELSE NextMonthStart(start), end)

\* The least number of distinct times the rule judges.
MinTimesJudged == 3

\* A rule that already judges two distinct times.
monthly_frequency_ok_from_two(times) ==
    LET t == SortedDates({x[1] : x \in {y \in Range(times) : ~IsNone(y)}})
    IN  IF Len(t) < 2 THEN TRUE
        ELSE LET expected == date_range_MS(t[1], t[Len(t)])
             IN  Len(expected) = Len(t) /\ \A i \in DOMAIN t : expected[i] = t[i]

\* times: the time column of one group, None for NaT.
monthly_frequency_ok(times) ==
    LET t == SortedDates({x[1] : x \in {y \in Range(times) : ~IsNone(y)}})
    IN  IF Len(t) < MinTimesJudged THEN TRUE
        ELSE LET expected == date_range_MS(t[1], t[Len(t)])
             IN  Len(expected) = Len(t) /\ \A i \in DOMAIN t : expected[i] = t[i]

RequiredCols == <<"time", "geo", "coicop", "unit", "value">>

GroupCols == <<"geo", "coicop", "unit">>

\* .sum() of a boolean column
CountTrue(flags) == Cardinality({i \in DOMAIN flags : flags[i]})

GroupKey(r) == [c \in Range(GroupCols) |-> r[c]]

\* The group keys in the order df.groupby yields them (sorted).
RECURSIVE SortedKeys(_)
SortedKeys(S) ==
    IF S = {} THEN <<>>
    ELSE LET lo == CHOOSE k \in S : \A u \in S : ~RowLess(u, k, GroupCols)
         IN  <<lo>> \o SortedKeys(S \ {lo})

\* Check 6, on a table that has the four columns.
FrequencyCheck(df) ==
    LET keys == SortedKeys({GroupKey(df.rows[i]) : i \in DOMAIN df.rows})
        sub(k) == SelectSeq(df.rows, LAMBDA r : GroupKey(r) = k)
        ok(k) == monthly_frequency_ok([i \in DOMAIN sub(k) |-> sub(k)[i].time])
        bad == SelectSeq(keys, LAMBDA k : ~ok(k))
    IN  [name |-> "monthly_frequency_no_gaps",
         passed |-> \A i \in DOMAIN keys : ok(keys[i]),
         details |-> [i \in DOMAIN bad |->
                         [geo |-> bad[i].geo, coicop |-> bad[i].coicop,
                          unit |-> bad[i].unit,
                          issue |-> "missing_months_or_duplicates"]]]

\* df.duplicated(subset=key_cols).sum(): the rows equal to an earlier row.
DuplicateCount(df, key_cols) ==
    Cardinality({i \in DOMAIN df.rows :
        \E j \in 1..(i - 1) :
            \A c \in Range(key_cols) : df.rows[j][c] = df.rows[i][c]})

MinDate(S) == CHOOSE t \in S : \A u \in S : DateNum(t) <= DateNum(u)
MaxDate(S) == CHOOSE t \in S : \A u \in S : DateNum(t) >= DateNum(u)
MinNum(S) == CHOOSE t \in S : \A u \in S : t <= u
MaxNum(S) == CHOOSE t \in S : \A u \in S : t >= u

Present(df, c) == {df.rows[i][c][1] : i \in {j \in DOMAIN df.rows : ~IsNone(df.rows[j][c])}}

Summary(df) ==
    LET cols == Range(df.cols)
        times == IF "time" \in cols THEN Present(df, "time") ELSE {}
        vals == IF "value" \in cols THEN Present(df, "value") ELSE {}
    IN  [rows |-> Len(df.rows),
         columns |-> df.cols,
         min_time |-> IF times = {} THEN None ELSE Some(MinDate(times)),
         max_time |-> IF times = {} THEN None ELSE Some(MaxDate(times)),
         value_min |-> IF vals = {} THEN None ELSE Some(MinNum(vals)),
         value_max |-> IF vals = {} THEN None ELSE Some(MaxNum(vals))]

\* The cells that can be null in the model are those of time and value.
IsNa(c, cell) == c \in {"time", "value"} /\ IsNone(cell)

run_checks(df) ==
    LET cols == Range(df.cols)
        missing == SelectSeq(RequiredCols, LAMBDA c : c \notin cols)
        null_counts == [c \in Range(RequiredCols) |->
                           CountTrue([i \in DOMAIN df.rows |-> IsNa(c, df.rows[i][c])])]
        key_cols == KeepPresent(<<"time", "geo", "coicop", "unit">>, cols)
        non_positive == CountTrue([i \in DOMAIN df.rows |->
                            /\ ~IsNone(df.rows[i].value)
                            /\ df.rows[i].value[1] <= 0])
        time_na == CountTrue([i \in DOMAIN df.rows |-> IsNone(df.rows[i].time)])
        c1 == <<[name |-> "schema_required_columns",
                 passed |-> missing = <<>>, missing |-> missing]>>
        c2 == IF missing = <<>>
              THEN <<[name |-> "non_null_required_columns",
                      passed |-> \A c \in Range(RequiredCols) : null_counts[c] = 0,
                      null_counts |-> null_counts]>>
              ELSE <<>>
        c3 == IF key_cols # <<>>
              THEN <<[name |-> "no_duplicate_keys",
                      passed |-> DuplicateCount(df, key_cols) = 0,
                      duplicate_rows |-> DuplicateCount(df, key_cols),
                      key_cols |-> key_cols]>>
              ELSE <<>>
        c4 == IF "value" \in cols
              THEN <<[name |-> "value_positive",
                      passed |-> non_positive = 0, non_positive |-> non_positive]>>
              ELSE <<>>
        c5 == IF "time" \in cols
              THEN <<[name |-> "time_parseable",
                      passed |-> time_na = 0, unparseable_time_rows |-> time_na]>>
              ELSE <<>>
        c6 == IF {"time", "geo", "coicop", "unit"} \subseteq cols
              THEN <<FrequencyCheck(df)>>
              ELSE <<>>
        checks == c1 \o c2 \o c3 \o c4 \o c5 \o c6
    IN  [passed |-> \A i \in DOMAIN checks : checks[i].passed,
         checks |-> checks,
         summary |-> Summary(df)]

(***************************************************************************)
(* SpecChecks: run_checks on one table.                                    *)
(***************************************************************************)
MaxRows == 4    \* rows of a table

CheckTimes ==
    <<None, Some(Timestamp(2023, 12, 1)), Some(Timestamp(2024, 1, 1)),
      Some(Timestamp(2024, 2, 1)), Some(Timestamp(2024, 3, 1)),
      Some(Timestamp(2024, 2, 15))>>

BaseRow(t, u, v) ==
    [time |-> t, geo |-> "LU", coicop |-> "CP00", unit |-> u, value |-> v]

\* The rows a table is drawn from: every time in two series, and one row
\* with a zero and one with a missing value.
RowKinds ==
    [k \in 1..Len(CheckTimes) |-> BaseRow(CheckTimes[k], "I15", Some(100))]
    \o [k \in 1..Len(CheckTimes) |-> BaseRow(CheckTimes[k], "I96", Some(100))]
    \o <<BaseRow(CheckTimes[3], "I15", Some(0)), BaseRow(CheckTimes[3], "I15", None)>>

\* The non-decreasing sequences over lo..hi of length at most n.
RECURSIVE NonDecreasing(_, _, _)
NonDecreasing(lo, hi, n) ==
    IF n = 0 THEN {<<>>}
    ELSE {<<>>} \cup UNION {{<<k>> \o r : r \in NonDecreasing(k, hi, n - 1)} :
                            k \in lo..hi}

TableOf(ks) ==
    [cols |-> RequiredCols, rows |-> [i \in DOMAIN ks |-> RowKinds[ks[i]]]]

WithoutCol(df, c) ==
    [cols |-> SelectSeq(df.cols, LAMBDA x : x # c),
     rows |-> [i \in DOMAIN df.rows |->
                  [x \in DOMAIN df.rows[i] \ {c} |-> df.rows[i][x]]]]

Tables ==
    {TableOf(ks) : ks \in NonDecreasing(1, Len(RowKinds), MaxRows)}
    \cup {WithoutCol(TableOf(ks), c) :
             ks \in NonDecreasing(1, Len(RowKinds), 1), c \in Range(RequiredCols)}

InitChecks ==
    /\ StoresInit
    /\ fnIn \in {[fn |-> "run_checks", arg |-> df] : df \in Tables}
    /\ fnOut = Pending

ApplyChecks ==
    /\ fnIn.fn = "run_checks"
    /\ fnOut = Pending
    /\ fnOut' = Ok(run_checks(fnIn.arg))
    /\ UNCHANGED fnIn
    /\ StoresUnchanged

SpecChecks == InitChecks /\ [][ApplyChecks]_vars

ChecksDone == fnIn.fn = "run_checks" /\ fnOut # Pending

MonthNo(t) == t.year * 12 + t.month

\* The distinct times of the rows of group g.
TimesOf(df, g) ==
    {df.rows[i].time[1] :
        i \in {j \in DOMAIN df.rows :
                  GroupKey(df.rows[j]) = g /\ ~IsNone(df.rows[j].time)}}

\* T is exactly the month starts from its minimum to its maximum.
ConsecutiveMonthStarts(T) ==
    /\ \A t \in T : t.day = 1
    /\ \A m \in MinNum({MonthNo(t) : t \in T})..MaxNum({MonthNo(t) : t \in T}) :
           \E t \in T : MonthNo(t) = m

GapGroups(df) ==
    {g \in {GroupKey(df.rows[i]) : i \in DOMAIN df.rows} :
        /\ Cardinality(TimesOf(df, g)) >= 3
        /\ ~ConsecutiveMonthStarts(TimesOf(df, g))}

RuleNamed(report, name) ==
    SelectSeq(report.checks, LAMBDA c : c.name = name)

\* C7: on a table with the columns time, geo, category and unit, the rule
\* monthly_frequency_no_gaps passes exactly when every group of at least 3
\* distinct times has the consecutive month starts from its minimum to its
\* maximum as its times, and its details name each failing group.
C7_MonthlyRule ==
    (ChecksDone /\ {"time", "geo", "coicop", "unit"} \subseteq Range(fnIn.arg.cols)) =>
        LET rule == RuleNamed(fnOut.val, "monthly_frequency_no_gaps")
            bad == GapGroups(fnIn.arg)
        IN  /\ Len(rule) = 1
            /\ rule[1].passed = (bad = {})
            /\ {[c \in Range(GroupCols) |-> d[c]] : d \in Range(rule[1].details)} = bad
            /\ Len(rule[1].details) = Cardinality(bad)

C7_Witness ==
    /\ ChecksDone
    /\ {"time", "geo", "coicop", "unit"} \subseteq Range(fnIn.arg.cols)
    /\ Cardinality({GroupKey(fnIn.arg.rows[i]) : i \in DOMAIN fnIn.arg.rows}) = 2
    /\ Cardinality(GapGroups(fnIn.arg)) = 1
    /\ ~fnOut.val.passed

(***************************************************************************)
(* The Fetcher: fetch_eurostat_json, try_fetch_with_fallbacks, main.       *)
(*                                                                         *)
(* A response is [kind |-> "exception"] when requests.get raises (timeout, *)
(* connection), else [kind |-> "http", status |-> n, json |-> body] with   *)
(* body None when the body is no JSON document.                            *)
(***************************************************************************)
\* The status fetch_eurostat_json accepts.
HttpOk == 200

fetch_eurostat_json(resp) ==
    IF resp.kind = "exception" THEN Raise("RequestException")
    ELSE IF resp.status # HttpOk THEN Raise("RuntimeError")
    ELSE IF IsNone(resp.json) THEN Raise("JSONDecodeError")
    ELSE Ok(resp.json[1])

\* if unit: a string that is not empty.
Truthy(unit) == ~IsNone(unit) /\ unit[1] # ""

WithUnit(base_params, unit) ==
    [k \in DOMAIN base_params \cup {"unit"} |->
        IF k = "unit" THEN unit[1] ELSE base_params[k]]

\* The run of one fetch: the requests issued in order, and the result
\* <<payload, params>> or the error.
FetchRun(requests, result) == [requests |-> requests, result |-> result]

\* A fallback that returns the parameters first asked for.
try_fetch_returning_requested(base_params, unit, resp1, resp2) ==
    IF Truthy(unit) THEN
        LET params == WithUnit(base_params, unit)
            r1 == fetch_eurostat_json(resp1)
            r2 == fetch_eurostat_json(resp2)
        IN  IF r1.st = "ok" THEN FetchRun(<<params>>, Ok(<<r1.val, params>>))
            ELSE IF r1.err # "RuntimeError" THEN FetchRun(<<params>>, r1)
            ELSE FetchRun(<<params, base_params>>,
                          IF r2.st = "ok" THEN Ok(<<r2.val, params>>) ELSE r2)
    ELSE LET r == fetch_eurostat_json(resp1)
         IN  FetchRun(<<base_params>>,
                      IF r.st = "ok" THEN Ok(<<r.val, base_params>>) ELSE r)

\* resp1 and resp2 are what the API answers to the first and to the second
\* request, if they are issued.
try_fetch_with_fallbacks(base_params, unit, resp1, resp2) ==
    IF Truthy(unit) THEN
        LET params == WithUnit(base_params, unit)
            r1 == fetch_eurostat_json(resp1)
            r2 == fetch_eurostat_json(resp2)
        IN  IF r1.st = "ok" THEN FetchRun(<<params>>, Ok(<<r1.val, params>>))
            ELSE IF r1.err # "RuntimeError" THEN FetchRun(<<params>>, r1)
            ELSE FetchRun(<<params, base_params>>,
                          IF r2.st = "ok" THEN Ok(<<r2.val, base_params>>) ELSE r2)
    ELSE LET r == fetch_eurostat_json(resp1)
         IN  FetchRun(<<base_params>>,
                      IF r.st = "ok" THEN Ok(<<r.val, base_params>>) ELSE r)

\* f with key k set to v (upload_blob(..., overwrite=True)).
Put(f, k, v) == [x \in DOMAIN f \cup {k} |-> IF x = k THEN v ELSE f[x]]

\* The wrapper main uploads.
Wrapper(payload, final_params, base_params, unit) ==
    [meta |-> [params |-> final_params,
               requested_params |-> IF Truthy(unit) THEN WithUnit(base_params, unit)
                                    ELSE base_params],
     data |-> payload]

\* The raw store after main, given the run of its fetch.
RawAfterIngest(run, base_params, unit) ==
    IF run.result.st = "ok"
    THEN Put(raw, now, Wrapper(run.result.val[1], run.result.val[2], base_params, unit))
    ELSE raw

(***************************************************************************)
(* SpecFetch: the Fetcher's main in one environment.                       *)
(***************************************************************************)
BaseParams == [geo |-> "LU", coicop |-> "CP00"]

\* HICP_UNIT: unset in the call, empty, or a unit code.
UnitSettings == {None, Some(""), Some("I15"), Some("I96")}

\* Bodies stand for the JSON documents the API sends.
Responses ==
    {[kind |-> "exception"]}
    \cup {[kind |-> "http", status |-> st, json |-> b] :
             st \in {200, 204, 400, 500}, b \in {None, Some("body-a"), Some("body-b")}}

InitFetch ==
    /\ StoresInit
    /\ fnIn \in {[fn |-> "ingest", unit |-> u, resp1 |-> r1, resp2 |-> r2] :
                    u \in UnitSettings, r1 \in Responses, r2 \in Responses}
    /\ fnOut = Pending

ApplyFetch ==
    /\ fnIn.fn = "ingest"
    /\ fnOut = Pending
    /\ LET run == try_fetch_with_fallbacks(BaseParams, fnIn.unit, fnIn.resp1, fnIn.resp2)
       IN  /\ fnOut' = run
           /\ raw' = RawAfterIngest(run, BaseParams, fnIn.unit)
    /\ UNCHANGED <<fnIn, now, processed, reports, latest, fact, tableExists,
                   loader, lastLoad, lastReport>>

SpecFetch == InitFetch /\ [][ApplyFetch]_vars

FetchDone == fnIn.fn = "ingest" /\ fnOut # Pending

\* A request succeeded: the API answered 200 with a JSON document.
Succeeded(resp) ==
    resp.kind = "http" /\ resp.status = 200 /\ ~IsNone(resp.json)

\* A request failed: the API answered with another status.
Rejected(resp) == resp.kind = "http" /\ resp.status # 200

UnitSupplied(u) == u \notin {None, Some("")}

\* C6: with a unit supplied the first request carries the unit filter, a
\* second request without it is issued only if the first failed, never a
\* third, and if the second fails too the fetch ends in an error and nothing
\* is stored; with no unit exactly one request is issued; on success the
\* params_used are the parameters of the request that succeeded.
C6_FetchFallback ==
    FetchDone =>
        LET reqs == fnOut.requests
            resps == <<fnIn.resp1, fnIn.resp2>>
        IN  /\ Len(reqs) \in {1, 2}
            /\ UnitSupplied(fnIn.unit) =>
                   /\ reqs[1] = [geo |-> "LU", coicop |-> "CP00", unit |-> fnIn.unit[1]]
                   /\ Len(reqs) = 2 =>
                          /\ Rejected(fnIn.resp1)
                          /\ reqs[2] = [geo |-> "LU", coicop |-> "CP00"]
                   /\ (Len(reqs) = 2 /\ ~Succeeded(fnIn.resp2)) =>
                          fnOut.result.st = "raised" /\ raw = <<>>
            /\ ~UnitSupplied(fnIn.unit) =>
                   reqs = <<[geo |-> "LU", coicop |-> "CP00"]>>
            /\ fnOut.result.st = "ok" =>
                   /\ Succeeded(resps[Len(reqs)])
                   /\ fnOut.result.val[2] = reqs[Len(reqs)]
                   /\ fnOut.result.val[1] = resps[Len(reqs)].json[1]
                   /\ DOMAIN raw = {now}
                   /\ raw[now].meta.params = reqs[Len(reqs)]
            /\ fnOut.result.st = "raised" => raw = <<>>

C6_Witness ==
    /\ FetchDone
    /\ UnitSupplied(fnIn.unit)
    /\ Len(fnOut.requests) = 2
    /\ Rejected(fnIn.resp1)
    /\ fnOut.result.st = "ok"
    /\ "unit" \notin DOMAIN fnOut.result.val[2]
    /\ DOMAIN raw = {now}

(***************************************************************************)
(* The blob store (blob.py) and the names of the blobs.                    *)
(*                                                                         *)
(* A raw or processed blob is named by the second of its "ts=" part; a     *)
(* blob written by a stage has that second as its last_modified. A report  *)
(* blob's name is the sequence of the parts of                             *)
(* f"{quality_prefix}ts={ts}_{status}.json".                               *)
(***************************************************************************)
QUALITY_PREFIX == "metadata/quality/hicp/prc_hicp_midx/geo=LU/coicop=CP00/"

ReportBlobName(ts, status) ==
    <<QUALITY_PREFIX, "ts=", StrOfInt(ts), "_", status, ".json">>

\* sub in name, for names and sub given by their parts.
Contains(name, sub) ==
    \E i \in 0..(Len(name) - Len(sub)) :
        \A j \in DOMAIN sub : name[i + j] = sub[j]

\* A check that accepts every report name.
IsJsonName(report_blob) == Contains(report_blob, <<".json">>)

\* "_PASS.json" in report_blob
IsPassName(report_blob) == Contains(report_blob, <<"_", "PASS", ".json">>)

\* latest_blob(prefix): the name of greatest last_modified, None if none.
latest_blob(store) ==
    IF DOMAIN store = {} THEN None ELSE Some(MaxNum(DOMAIN store))

(***************************************************************************)
(* Spec: the four stages, run one at a time.                               *)
(***************************************************************************)
MaxClock == 2   \* seconds of wall clock

\* A cube as the API sends it: unit, coicop, geo, time, indexed by mappings.
ApiCube(units, times, values) ==
    MkCube(<<"unit", "coicop", "geo", "time">>,
           <<[kind |-> "dict", items |-> [i \in DOMAIN units |-> <<units[i], i - 1>>]],
             [kind |-> "dict", items |-> <<<<"CP00", 0>>>>],
             [kind |-> "dict", items |-> <<<<"LU", 0>>>>],
             [kind |-> "dict", items |-> [i \in DOMAIN times |-> <<times[i], i - 1>>]]>>,
           <<Len(units), 1, 1, Len(times)>>,
           values)

\* The requested unit alone, its first observation missing.
CubeMissingValue == ApiCube(<<"I15">>, <<tJan, tFeb>>, DenseFirstNull(2))

\* Every unit of the dataset, as the request without the unit filter gets.
CubeTwoUnits == ApiCube(<<"I15", "I96">>, <<tJan>>, DenseOf(2))

\* What the API answers to a request: a rejection, or a cube of the one
\* unit the request filters on, or of every unit when it does not filter.
ApiResponses(params) ==
    {[kind |-> "http", status |-> 400, json |-> None]}
    \cup {[kind |-> "http", status |-> 200, json |-> Some(c)] :
             c \in IF "unit" \in DOMAIN params
                   THEN {CubeMissingValue}
                   ELSE {CubeTwoUnits}}

\* HICP_UNIT at its default
PipelineUnit == Some("I15")

Init ==
    /\ StoresInit
    /\ fnIn = [fn |-> "none"]
    /\ fnOut = Pending

Idle == loader.pc = "idle"

Tick ==
    /\ now < MaxClock
    /\ now' = now + 1
    /\ UNCHANGED <<raw, processed, reports, latest, fact, tableExists, loader,
                   lastLoad, lastReport, fnIn, fnOut>>

\* ingestion_hicp_raw.main
FetchMain ==
    /\ Idle
    /\ \E resp1 \in ApiResponses(WithUnit(BaseParams, PipelineUnit)),
          resp2 \in ApiResponses(BaseParams) :
           raw' = RawAfterIngest(
                      try_fetch_with_fallbacks(BaseParams, PipelineUnit, resp1, resp2),
                      BaseParams, PipelineUnit)
    /\ UNCHANGED <<now, processed, reports, latest, fact, tableExists, loader,
                   lastLoad, lastReport, fnIn, fnOut>>

\* df["processed_at_utc"] = ...; df["raw_blob"] = raw_blob_name
WithProvenance(df, raw_blob_name) ==
    [cols |-> df.cols \o <<"processed_at_utc", "raw_blob">>,
     rows |-> [i \in DOMAIN df.rows |->
                  [c \in DOMAIN df.rows[i] \cup {"processed_at_utc", "raw_blob"} |->
                      IF c = "processed_at_utc" THEN now
                      ELSE IF c = "raw_blob" THEN raw_blob_name
                      ELSE df.rows[i][c]]]]

\* The processed store after process_hicp_silver.main: unchanged when there
\* is no raw blob or the transformation raises.
ProcessedAfterTransform ==
    LET raw_blob_name == latest_blob(raw)
        r == jsonstat_to_dataframe(raw[raw_blob_name[1]].data)
    IN  IF IsNone(raw_blob_name) THEN processed
        ELSE IF r.st = "raised" THEN processed
        ELSE Put(processed, now, WithProvenance(r.val, raw_blob_name[1]))

TransformMain ==
    /\ Idle
    /\ processed' = ProcessedAfterTransform
    /\ UNCHANGED <<now, raw, reports, latest, fact, tableExists, loader,
                   lastLoad, lastReport, fnIn, fnOut>>

\* A pointer that moves only to a passing report.
LatestOnlyOnPass(report_blob, passed) ==
    IF passed THEN Some(report_blob) ELSE latest

\* LATEST.json after the Validator's second upload.
LatestAfterValidate(report_blob, passed) == Some(report_blob)

\* check_hicp_quality.main: nothing is written when there is no processed
\* blob.
ValidateMain ==
    /\ Idle
    /\ ~IsNone(latest_blob(processed))
    /\ LET processed_blob == latest_blob(processed)[1]
           report == run_checks(processed[processed_blob])
           report_blob == ReportBlobName(now, IF report.passed THEN "PASS" ELSE "FAIL")
       IN  /\ reports' = Put(reports, report_blob,
                             [meta |-> [processed_blob |-> processed_blob],
                              report |-> report])
           /\ latest' = LatestAfterValidate(report_blob, report.passed)
           /\ lastReport' = Some(report_blob)
    /\ UNCHANGED <<now, raw, processed, fact, tableExists, loader, lastLoad,
                   fnIn, fnOut>>

(***************************************************************************)
(* The Loader (load_hicp_to_sql.py). Its reads, the table creation, the    *)
(* delete and the insert are steps of their own: each of the three         *)
(* statements commits in its own transaction.                              *)
(***************************************************************************)
LoadCols == <<"time", "geo", "coicop", "unit", "value", "processed_at_utc", "raw_blob">>

\* How a Loader run ended: on which table, and with what.
RunEnd(df, st, err) == [df |-> df, st |-> st, err |-> err]

\* The run raises before it has a connection: nothing relational is touched.
RaiseAtStart(err) ==
    /\ lastLoad' = RunEnd(None, "raised", err)
    /\ UNCHANGED loader

\* main up to get_sql_engine: get_latest_pass_processed_blob,
\* download_parquet, the column selection and the series key.
LoadStart ==
    /\ Idle
    /\ IF IsNone(latest) THEN RaiseAtStart("BlobNotFound")
       ELSE IF ~IsPassName(latest[1]) THEN RaiseAtStart("ReportNotPassing")
       ELSE LET report == reports[latest[1]]
                df == processed[report.meta.processed_blob]
            IN  IF ~(Range(LoadCols) \subseteq Range(df.cols))
                THEN RaiseAtStart("KeyError")
                ELSE IF df.rows = <<>> THEN RaiseAtStart("IndexError")
                ELSE /\ loader' = [pc |-> "ensure",
                                   df |-> [i \in DOMAIN df.rows |->
                                              [c \in Range(LoadCols) |-> df.rows[i][c]]],
                                   geo |-> df.rows[1].geo,
                                   coicop |-> df.rows[1].coicop,
                                   unit |-> df.rows[1].unit,
                                   before |-> fact]
                     /\ UNCHANGED lastLoad
    /\ UNCHANGED <<now, raw, processed, reports, latest, fact, tableExists,
                   lastReport, fnIn, fnOut>>

\* ensure_table
LoadEnsureTable ==
    /\ loader.pc = "ensure"
    /\ tableExists' = TRUE
    /\ loader' = [loader EXCEPT !.pc = "delete"]
    /\ UNCHANGED <<now, raw, processed, reports, latest, fact, lastLoad,
                   lastReport, fnIn, fnOut>>

\* The rows the DELETE statement leaves.
delete_existing_series(rows, geo, coicop, unit) ==
    {r \in rows : ~(r.geo = geo /\ r.coicop = coicop /\ r.unit = unit)}

LoadDelete ==
    /\ loader.pc = "delete"
    /\ fact' = delete_existing_series(fact, loader.geo, loader.coicop, loader.unit)
    /\ loader' = [loader EXCEPT !.pc = "insert"]
    /\ UNCHANGED <<now, raw, processed, reports, latest, tableExists, lastLoad,
                   lastReport, fnIn, fnOut>>

FactKey(r) == <<r.time, r.geo, r.coicop, r.unit>>

\* The insert breaks UX_fact_hicp_key or the NOT NULL of [time].
InsertRejected(rows, df) ==
    \/ \E i \in DOMAIN df : IsNone(df[i].time)
    \/ \E i, j \in DOMAIN df : i # j /\ FactKey(df[i]) = FactKey(df[j])
    \/ \E i \in DOMAIN df : \E r \in rows : FactKey(r) = FactKey(df[i])

LoadEnd(st, err) ==
    /\ lastLoad' = RunEnd(Some(loader.df), st, err)
    /\ loader' = [pc |-> "idle"]

\* df.to_sql(..., if_exists="append"): one transaction, rolled back whole.
LoadInsert ==
    /\ loader.pc = "insert"
    /\ IF InsertRejected(fact, loader.df)
       THEN UNCHANGED fact /\ LoadEnd("raised", "IntegrityError")
       ELSE fact' = fact \cup Range(loader.df) /\ LoadEnd("ok", "")
    /\ UNCHANGED <<now, raw, processed, reports, latest, tableExists,
                   lastReport, fnIn, fnOut>>

\* The run that stopped: where, with which series key, and what the fact
\* table held when the run started.
CrashEnd ==
    [st |-> "crashed", at |-> loader.pc,
     geo |-> loader.geo, coicop |-> loader.coicop, unit |-> loader.unit,
     before |-> loader.before]

\* A fact table that returns to what it held when the run started.
FactRolledBack == loader.before

\* The fact table after the process stops: each statement that ended has
\* committed (with engine.begin() as conn), so the table stays as it is.
FactAfterCrash == fact

\* The Loader process stops between two of its statements.
LoadCrash ==
    /\ loader.pc \in {"ensure", "delete", "insert"}
    /\ fact' = FactAfterCrash
    /\ lastLoad' = CrashEnd
    /\ loader' = [pc |-> "idle"]
    /\ UNCHANGED <<now, raw, processed, reports, latest, tableExists,
                   lastReport, fnIn, fnOut>>

Next ==
    \/ Tick
    \/ FetchMain
    \/ TransformMain
    \/ ValidateMain
    \/ LoadStart
    \/ LoadEnsureTable
    \/ LoadDelete
    \/ LoadInsert
    \/ LoadCrash

Spec == Init /\ [][Next]_vars

(***************************************************************************)
(* Claims on the pipeline.                                                 *)
(***************************************************************************)
\* The status part of a report blob's name, and the second of its "ts=".
StatusMarker(report_blob) == report_blob[Len(report_blob) - 1]

TsOf(report_blob) == CHOOSE t \in 0..(MaxClock + 1) : StrOfInt(t) = report_blob[3]

PointsAtNonPass == ~IsNone(latest) /\ StatusMarker(latest[1]) # "PASS"

\* C1: a Loader run that finds the LATEST pointer naming a report whose
\* status marker is not PASS ends at once with the "not PASS" error, and the
\* fact table and its existence are what they were before the run.
C1_NonPassRefused ==
    [][(LoadStart /\ PointsAtNonPass) =>
          /\ lastLoad' = RunEnd(None, "raised", "ReportNotPassing")
          /\ loader'.pc = "idle"
          /\ fact' = fact
          /\ tableExists' = tableExists]_vars

\* A Loader run was refused on a failing report while the fact table held
\* rows of an earlier load.
C1_Witness ==
    /\ PointsAtNonPass
    /\ lastLoad = RunEnd(None, "raised", "ReportNotPassing")
    /\ Idle
    /\ fact # {}

\* The rows of the (geo, category, unit) series that the table df holds.
SeriesRows(rows, df) ==
    {r \in rows : \E i \in DOMAIN df :
        r.geo = df[i].geo /\ r.coicop = df[i].coicop /\ r.unit = df[i].unit}

\* C2: a Loader run that follows a successful run on the same passing
\* processed table completes too, and leaves the rows of the table's series
\* as that first run left them.
C2_LoadIdempotent ==
    [][(LoadInsert /\ lastLoad.st = "ok" /\ lastLoad.df = Some(loader.df)) =>
          /\ lastLoad'.st = "ok"
          /\ SeriesRows(fact', loader.df) = SeriesRows(loader.before, loader.df)]_vars

\* C8: after a completed Validator run, LATEST names the report that run
\* wrote, whose status marker says whether it passed, and no report in the
\* store is more recent.
C8_LatestNamesThisRun ==
    ~IsNone(lastReport) =>
        /\ latest = lastReport
        /\ latest[1] \in DOMAIN reports
        /\ (StatusMarker(latest[1]) = "PASS") <=> reports[latest[1]].report.passed
        /\ StatusMarker(latest[1]) \in {"PASS", "FAIL"}
        /\ \A k \in DOMAIN reports : TsOf(k) <= TsOf(latest[1])

\* The last Validator run failed after an earlier one had passed.
C8_Witness ==
    /\ ~IsNone(lastReport)
    /\ StatusMarker(lastReport[1]) = "FAIL"
    /\ latest = lastReport
    /\ \E k \in DOMAIN reports : StatusMarker(k) = "PASS" /\ TsOf(k) < TsOf(lastReport[1])

\* The rows of the series (geo, category, unit) of the stopped run k.
OfSeries(rows, k) ==
    {r \in rows : r.geo = k.geo /\ r.coicop = k.coicop /\ r.unit = k.unit}

StoppedAfterDelete == Idle /\ lastLoad.st = "crashed" /\ lastLoad.at = "insert"

\* C11: after a Loader run that stopped once its delete had committed and
\* before its insert, the fact table holds no row of the series of the
\* batch's first row (the rows loaded before are not restored) and the rows
\* of every other series are those it held when the run started.
C11_DeleteCommittedAlone ==
    StoppedAfterDelete =>
        /\ OfSeries(fact, lastLoad) = {}
        /\ fact \ OfSeries(fact, lastLoad)
               = lastLoad.before \ OfSeries(lastLoad.before, lastLoad)

\* Such a run stopped on a table that held rows of its series and of another.
C11_Witness ==
    /\ StoppedAfterDelete
    /\ OfSeries(lastLoad.before, lastLoad) # {}
    /\ lastLoad.before \ OfSeries(lastLoad.before, lastLoad) # {}
    /\ OfSeries(fact, lastLoad) = {}
    /\ fact # {}

====
